---------------------------- MODULE Spec2Model ----------------------------
(***************************************************************************)
(* Model of auto-pdf-signer.py (class AutoPDFSigner).                      *)
(*                                                                         *)
(* Strings are TLC strings; lower-casing and substring containment are     *)
(* computed character by character.  An entity record is the ordered       *)
(* sequence of (key, value) pairs of the Python dict self.entity_data.     *)
(***************************************************************************)
EXTENDS Integers, Sequences, FiniteSets, TLC

VARIABLES
    entity_data,    \* self.entity_data: Seq of [key, value], insertion order
    field_name,     \* argument of find_matching_entity_value
    match_result,   \* [called, some, val]: what find_matching_entity_value returned
    pdf_doc,        \* the open document: Seq of pages [lines, widgets, height]
    dpc,            \* position inside fill_definition_fields
    company_name,   \* Optional[str] found in the entity data
    page_num,       \* index of the page being searched (0-based, as in the code)
    term_i,         \* position in definition_terms (1-based)
    inst,           \* instances[0]: rectangle of the occurrence being processed
    replacement_made,
    definitions_filled,
    replaced_patterns,
    filled_areas,
    occ_page,       \* page of the occurrence last accepted for processing
    tried,          \* strategies whose search ran for that occurrence, in order
    inserts,        \* successful page.insert_text calls of the run, in order
    def_errors,     \* occurrences whose handling raised: {[page, term]}
    def_result,     \* [returned, value]: what fill_definition_fields returned
    pc,             \* position inside process_pdf
    loop_page,      \* page index of the widget and rasterizing loops (0-based)
    loop_idx,       \* widget index on that page (1-based)
    form_fields_filled,
    signature_fields_filled,
    field_values,   \* text widgets whose field_value was set: {[page, idx, value]}
    attempts,       \* widgets a fill was attempted on: {[stage, page, idx]}
    image_inserts,  \* successful page.insert_image calls, in order
    temp_exists,    \* temp_signature.pdf is on disk
    ops,            \* operations of fallback_placement started so far, in order
    sig_target,     \* [page, rect]: target_page and sig_rect of fallback_placement
    y_position,     \* add_entity_text: y of the next line
    entity_i,       \* add_entity_text: position in entity_data.items() (1-based)
    text_lines,     \* entity lines inserted by add_entity_text, in order
    src_doc,        \* handle of fitz.open(input_pdf): "none", "open", "closed"
    flat_doc,       \* handle of flattened_doc
    new_doc,        \* handle of fitz.open("pdf", temp_bytes)
    self_doc,       \* what self.pdf_doc refers to: "none", "source", "flattened"
    flat_pages,     \* pages rasterized into flattened_doc
    saved,          \* which document was written to output_path
    result,         \* "running", "True", "False", or "raised" (exception escaped)
    raised          \* library calls that raised during the run: {[call, page, idx]}

matchVars == <<field_name, match_result>>

defVars == <<dpc, company_name, page_num, term_i, inst, replacement_made,
             definitions_filled, replaced_patterns, filled_areas, occ_page,
             tried, inserts, def_errors, def_result>>

procVars == <<pc, loop_page, loop_idx, form_fields_filled, signature_fields_filled,
              field_values, attempts, image_inserts, temp_exists, ops, sig_target,
              y_position, entity_i, text_lines, src_doc, flat_doc, new_doc,
              self_doc, flat_pages, saved, result, raised>>

vars == <<entity_data, pdf_doc, matchVars, defVars, procVars>>

\* --------------------------------------------------------------------------
\* Strings (Python str.lower and the `in` substring test)
\* --------------------------------------------------------------------------

LowerChar(c) ==
    CASE c = "A" -> "a" [] c = "B" -> "b" [] c = "C" -> "c" [] c = "D" -> "d"
      [] c = "E" -> "e" [] c = "F" -> "f" [] c = "G" -> "g" [] c = "H" -> "h"
      [] c = "I" -> "i" [] c = "J" -> "j" [] c = "K" -> "k" [] c = "L" -> "l"
      [] c = "M" -> "m" [] c = "N" -> "n" [] c = "O" -> "o" [] c = "P" -> "p"
      [] c = "Q" -> "q" [] c = "R" -> "r" [] c = "S" -> "s" [] c = "T" -> "t"
      [] c = "U" -> "u" [] c = "V" -> "v" [] c = "W" -> "w" [] c = "X" -> "x"
      [] c = "Y" -> "y" [] c = "Z" -> "z" [] OTHER -> c

RECURSIVE Lower(_)
Lower(s) ==
    IF Len(s) = 0 THEN ""
    ELSE LowerChar(SubSeq(s, 1, 1)) \o Lower(SubSeq(s, 2, Len(s)))

\* Python `p in s` for strings
Contains(p, s) ==
    \E i \in 1..(Len(s) - Len(p) + 1) : SubSeq(s, i, i + Len(p) - 1) = p

\* Python `x in [..]` for a list
InList(x, list) == \E i \in 1..Len(list) : list[i] = x

\* Optional[str]
None == [some |-> FALSE, val |-> ""]
Some(v) == [some |-> TRUE, val |-> v]

\* --------------------------------------------------------------------------
\* find_matching_entity_value
\* --------------------------------------------------------------------------

company_field_patterns ==
    << "recipient", "receiving party", "offeree", "representatives",
       "representative", "company", "name", "entity", "party",
       "organization", "corporation", "firm", "business" >>

address_field_patterns ==
    << "address", "location", "street", "city", "state", "zip",
       "postal", "residence", "place" >>

company_keys == << "company", "name", "entity" >>

address_keys == << "address", "location" >>

\* dict literal, iterated in insertion order
field_mappings ==
    << [pattern |-> "title",     keys |-> << "title", "position" >>],
       [pattern |-> "date",      keys |-> << "date" >>],
       [pattern |-> "signature", keys |-> << "company", "name" >>] >>

\* for key, value in entity.items(): if key.lower() == field_name_lower: return value
RECURSIVE DirectMatch(_, _, _)
DirectMatch(entity, fl, i) ==
    IF i > Len(entity) THEN None
    ELSE IF Lower(entity[i].key) = fl THEN Some(entity[i].value)
         ELSE DirectMatch(entity, fl, i + 1)

\* for key, value in entity.items(): if key.lower() in keys: return value
RECURSIVE FirstValueWithKeyIn(_, _, _)
FirstValueWithKeyIn(entity, keys, i) ==
    IF i > Len(entity) THEN None
    ELSE IF InList(Lower(entity[i].key), keys) THEN Some(entity[i].value)
         ELSE FirstValueWithKeyIn(entity, keys, i + 1)

\* for pattern in patterns: if pattern in field_name_lower: <scan entity>
RECURSIVE CategoryMatch(_, _, _, _, _)
CategoryMatch(patterns, keys, entity, fl, p) ==
    IF p > Len(patterns) THEN None
    ELSE IF Contains(patterns[p], fl)
         THEN LET r == FirstValueWithKeyIn(entity, keys, 1)
              IN  IF r.some THEN r
                  ELSE CategoryMatch(patterns, keys, entity, fl, p + 1)
         ELSE CategoryMatch(patterns, keys, entity, fl, p + 1)

\* for entity_key, entity_value in entity.items():
\*     if key.lower() in entity_key.lower(): return entity_value
RECURSIVE FirstKeyAsValue(_, _, _)
FirstKeyAsValue(entity, key, i) ==
    IF i > Len(entity) THEN None
    ELSE IF Contains(Lower(key), Lower(entity[i].key)) THEN Some(entity[i].key)
         ELSE FirstKeyAsValue(entity, key, i + 1)

RECURSIVE FirstValueWithKeyContaining(_, _, _)
FirstValueWithKeyContaining(entity, key, i) ==
    IF i > Len(entity) THEN None
    ELSE IF Contains(Lower(key), Lower(entity[i].key)) THEN Some(entity[i].value)
         ELSE FirstValueWithKeyContaining(entity, key, i + 1)

\* the scan the other way round: entity keys outermost, candidate keys inside
RECURSIVE CandidateScanEntityMajor(_, _, _)
CandidateScanEntityMajor(entity, keys, i) ==
    IF i > Len(entity) THEN None
    ELSE IF \E k \in 1..Len(keys) : Contains(Lower(keys[k]), Lower(entity[i].key))
         THEN Some(entity[i].value)
         ELSE CandidateScanEntityMajor(entity, keys, i + 1)

CandidateScanEntityFirst(entity, keys, k) == CandidateScanEntityMajor(entity, keys, 1)

\* for key in keys: <scan entity>
RECURSIVE CandidateScan(_, _, _)
CandidateScan(entity, keys, k) ==
    IF k > Len(keys) THEN None
    ELSE LET r == FirstValueWithKeyContaining(entity, keys[k], 1)
         IN  IF r.some THEN r ELSE CandidateScan(entity, keys, k + 1)

\* for pattern, keys in field_mappings.items(): if pattern in field_name_lower: ...
RECURSIVE MappingMatch(_, _, _)
MappingMatch(entity, fl, m) ==
    IF m > Len(field_mappings) THEN None
    ELSE IF Contains(field_mappings[m].pattern, fl)
         THEN LET r == CandidateScan(entity, field_mappings[m].keys, 1)
              IN  IF r.some THEN r ELSE MappingMatch(entity, fl, m + 1)
         ELSE MappingMatch(entity, fl, m + 1)

\* the same rules with the two category rules tried before the direct match
find_matching_entity_value_category_first(entity, name) ==
    LET fl == Lower(name)
        r1 == DirectMatch(entity, fl, 1)
        r2 == CategoryMatch(company_field_patterns, company_keys, entity, fl, 1)
        r3 == CategoryMatch(address_field_patterns, address_keys, entity, fl, 1)
    IN  IF r2.some THEN r2
        ELSE IF r3.some THEN r3
        ELSE IF r1.some THEN r1
        ELSE MappingMatch(entity, fl, 1)

find_matching_entity_value(entity, name) ==
    LET fl == Lower(name)
        r1 == DirectMatch(entity, fl, 1)
        r2 == CategoryMatch(company_field_patterns, company_keys, entity, fl, 1)
        r3 == CategoryMatch(address_field_patterns, address_keys, entity, fl, 1)
    IN  IF r1.some THEN r1
        ELSE IF r2.some THEN r2
        ELSE IF r3.some THEN r3
        ELSE MappingMatch(entity, fl, 1)

\* --------------------------------------------------------------------------
\* Rectangles (fitz.Rect) and text search (page.search_for)
\* --------------------------------------------------------------------------

Max(a, b) == IF a >= b THEN a ELSE b

Min(a, b) == IF a <= b THEN a ELSE b

Rect(x0, y0, x1, y1) == [x0 |-> x0, y0 |-> y0, x1 |-> x1, y1 |-> y1]

IsEmpty(r) == r.x0 >= r.x1 \/ r.y0 >= r.y1

\* Rect.intersects: the common rectangle is not empty
Intersects(a, b) ==
    /\ ~IsEmpty(a) /\ ~IsEmpty(b)
    /\ Max(a.x0, b.x0) < Min(a.x1, b.x1)
    /\ Max(a.y0, b.y0) < Min(a.y1, b.y1)

\* Page text is a sequence of lines [text, x, y] set in a fixed-pitch font:
\* every character is CharWidth wide and LineHeight high.
CharWidth == 5

LineHeight == 10

CharRect(line, j) ==
    Rect(line.x + CharWidth * (j - 1), line.y,
         line.x + CharWidth * j, line.y + LineHeight)

NoClip == [all |-> TRUE, rect |-> Rect(0, 0, 0, 0)]

Clip(r) == [all |-> FALSE, rect |-> r]

\* characters of the line the text page holds: those overlapping the clip
Visible(line, clip) ==
    { j \in 1..Len(line.text) : clip.all \/ Intersects(CharRect(line, j), clip.rect) }

\* start positions of the successive, non-overlapping occurrences in lt[i..hi]
RECURSIVE HitsIn(_, _, _, _)
HitsIn(lt, ln, i, hi) ==
    IF i + Len(ln) - 1 > hi THEN << >>
    ELSE IF SubSeq(lt, i, i + Len(ln) - 1) = ln
         THEN << i >> \o HitsIn(lt, ln, i + Len(ln), hi)
         ELSE HitsIn(lt, ln, i + 1, hi)

LineHits(line, needle, clip) ==
    LET vis == Visible(line, clip)
    IN  IF vis = {} \/ Len(needle) = 0 THEN << >>
        ELSE LET lo  == CHOOSE j \in vis : \A k \in vis : j <= k
                 hi  == CHOOSE j \in vis : \A k \in vis : j >= k
                 pos == HitsIn(Lower(line.text), Lower(needle), lo, hi)
             IN  [ h \in 1..Len(pos) |->
                     Rect(line.x + CharWidth * (pos[h] - 1), line.y,
                          line.x + CharWidth * (pos[h] - 1 + Len(needle)),
                          line.y + LineHeight) ]

RECURSIVE PageHits(_, _, _, _)
PageHits(lines, needle, clip, l) ==
    IF l > Len(lines) THEN << >>
    ELSE LineHits(lines[l], needle, clip) \o PageHits(lines, needle, clip, l + 1)

\* page.search_for(needle, clip=...): hit rectangles in reading order; the
\* search ignores case
search_for(page, needle, clip) == PageHits(page.lines, needle, clip, 1)

\* --------------------------------------------------------------------------
\* fill_definition_fields
\* --------------------------------------------------------------------------

definition_terms == << "Recipient" >>

underscore_patterns ==
    << "________________________", "__________________", "______________",
       "__________", "_______", "____", "___" >>

FirstValueOfAny(entity) ==
    IF entity = << >> THEN None ELSE Some(entity[1].value)

\* for key, value in entity.items(): if key.lower() in [...]: company_name = value; break
find_company_name(entity) == FirstValueWithKeyIn(entity, company_keys, 1)

\* `if not company_name`: None and the empty string are both falsy
Truthy(opt) == opt.some /\ opt.val # ""

every_page == Len(pdf_doc)

max_pages_to_search == Min(5, Len(pdf_doc))

Page == pdf_doc[page_num + 1]

Term == definition_terms[term_i]

inst_area(r) == Rect(r.x0 - 10, r.y0 - 10, r.x1 + 10, r.y1 + 10)

search_area(r) == Rect(r.x1, r.y0 - 10, r.x1 + 500, r.y1 + 50)

bracket_search(r) == Rect(r.x0 - 50, r.y0 - 30, r.x1 + 700, r.y1 + 60)

closing_bracket_search(br) == Rect(br.x1, br.y0 - 10, br.x1 + 500, br.y1 + 10)

paren_search(r) == Rect(r.x1, r.y0 - 5, r.x1 + 100, r.y1 + 5)

\* for filled_area in filled_areas: if inst_area.intersects(filled_area): ...
area_overlap(r) ==
    \E a \in 1..Len(filled_areas) : Intersects(inst_area(r), filled_areas[a])

\* `if term in replaced_patterns: continue`
NeverSkipped(t) == FALSE

AlreadyReplaced(t) == t \in replaced_patterns

\* replaced_patterns.add(term)
ForgetReplaced(t) == replaced_patterns

MarkReplaced(t) == replaced_patterns \cup {t}

\* for underscore_pattern in underscore_patterns: first pattern with any hit
RECURSIVE UnderscoreSearch(_, _, _)
UnderscoreSearch(page, clip, u) ==
    IF u > Len(underscore_patterns) THEN << >>
    ELSE LET h == search_for(page, underscore_patterns[u], clip)
         IN  IF h # << >> THEN h ELSE UnderscoreSearch(page, clip, u + 1)

\* [br for br in square_bracket_instances if br.x0 > term_x_end]
RECURSIVE RelevantBrackets(_, _, _)
RelevantBrackets(hits, x_end, i) ==
    IF i > Len(hits) THEN << >>
    ELSE (IF hits[i].x0 > x_end THEN << hits[i] >> ELSE << >>)
         \o RelevantBrackets(hits, x_end, i + 1)

\* The point handed to insert_text, in half units (the centred strategies
\* divide by two).
Insertion(strategy, x2, y2, text) ==
    [page |-> page_num, term |-> Term, inst |-> inst, strategy |-> strategy,
     x2 |-> x2, y2 |-> y2, text |-> text]

\* the `except Exception` of the occurrence: log and go on with the next term
HandleError ==
    /\ dpc' = "term"
    /\ term_i' = term_i + 1
    /\ def_errors' = def_errors \cup {[page |-> page_num, term |-> Term]}
    /\ UNCHANGED <<company_name, page_num, inst, replacement_made,
                   definitions_filled, replaced_patterns, filled_areas, inserts,
                   def_result>>

\* lines 250-276
DefBegin ==
    /\ dpc = "begin"
    /\ company_name' = find_company_name(entity_data)
    /\ def_errors' = {}
    /\ replaced_patterns' = {}
    /\ filled_areas' = << >>
    /\ definitions_filled' = FALSE
    /\ page_num' = 0
    /\ term_i' = 1
    /\ IF Truthy(find_company_name(entity_data))
       THEN dpc' = "page" /\ def_result' = def_result
       ELSE dpc' = "done" /\ def_result' = [returned |-> TRUE, value |-> FALSE]
    /\ UNCHANGED <<inst, replacement_made, tried, inserts>>
    /\ UNCHANGED <<entity_data, pdf_doc, matchVars, occ_page, procVars>>

\* for page_num in range(max_pages_to_search)
DefPage ==
    /\ dpc = "page"
    /\ IF page_num < max_pages_to_search
       THEN dpc' = "term" /\ term_i' = 1
       ELSE dpc' = "return" /\ term_i' = term_i
    /\ UNCHANGED <<def_errors, company_name, page_num, inst, replacement_made,
                   definitions_filled, replaced_patterns, filled_areas, tried,
                   inserts, def_result>>
    /\ UNCHANGED <<entity_data, pdf_doc, matchVars, occ_page, procVars>>

\* for term in definition_terms: lines 282-303
DefTerm ==
    /\ dpc = "term"
    /\ IF term_i > Len(definition_terms)
       THEN /\ dpc' = "page"
            /\ page_num' = page_num + 1
            /\ UNCHANGED <<term_i, inst, replacement_made, tried, occ_page>>
       ELSE LET instances == search_for(Page, Term, NoClip)
            IN  IF \/ AlreadyReplaced(Term)
                   \/ instances = << >>
                   \/ area_overlap(instances[1])
                THEN /\ term_i' = term_i + 1
                     /\ UNCHANGED <<dpc, page_num, inst, replacement_made, tried,
                                    occ_page>>
                ELSE /\ dpc' = "underscore"
                     /\ inst' = instances[1]
                     /\ replacement_made' = FALSE
                     /\ tried' = << >>
                     /\ occ_page' = page_num
                     /\ UNCHANGED <<page_num, term_i>>
    /\ UNCHANGED <<def_errors, company_name, definitions_filled, replaced_patterns,
                   filled_areas, inserts, def_result>>
    /\ UNCHANGED <<entity_data, pdf_doc, matchVars, procVars>>

\* lines 322-344
TryUnderscore ==
    /\ dpc = "underscore"
    /\ tried' = Append(tried, "underscore")
    /\ LET hits == UnderscoreSearch(Page, Clip(search_area(inst)), 1)
       IN  IF hits = << >>
           THEN /\ dpc' = "means"
                /\ UNCHANGED <<def_errors, company_name, page_num, term_i, inst,
                               replacement_made, definitions_filled,
                               replaced_patterns, filled_areas, inserts, def_result>>
           ELSE \E ok \in BOOLEAN :
                  IF ok
                  THEN /\ inserts' = Append(inserts,
                              Insertion("underscore", 2 * hits[1].x0,
                                        2 * (hits[1].y1 - 2), company_name.val))
                       /\ replaced_patterns' = MarkReplaced(Term)
                       /\ replacement_made' = TRUE
                       /\ definitions_filled' = TRUE
                       /\ dpc' = "means"
                       /\ UNCHANGED <<def_errors, company_name, page_num, term_i, inst,
                                      filled_areas, def_result>>
                  ELSE HandleError
    /\ UNCHANGED <<entity_data, pdf_doc, matchVars, occ_page, procVars>>

\* lines 347-365: `if not replacement_made:` then the "<term> means" phrase
MeansGuardDropped == TRUE

MeansGuard == ~replacement_made

TryMeans ==
    /\ dpc = "means"
    /\ IF ~MeansGuard
       THEN /\ dpc' = "bracket"
            /\ UNCHANGED <<def_errors, company_name, page_num, term_i, inst, replacement_made,
                           definitions_filled, replaced_patterns, filled_areas,
                           tried, inserts, def_result>>
       ELSE /\ tried' = Append(tried, "means")
            /\ LET hits == search_for(Page, Term \o " means", NoClip)
               IN  IF hits = << >>
                   THEN /\ dpc' = "colon"
                        /\ UNCHANGED <<def_errors, company_name, page_num, term_i, inst,
                                       replacement_made, definitions_filled,
                                       replaced_patterns, filled_areas, inserts,
                                       def_result>>
                   ELSE \E ok \in BOOLEAN :
                          IF ok
                          THEN /\ inserts' = Append(inserts,
                                      Insertion("means", 2 * (hits[1].x1 + 5),
                                                2 * hits[1].y1, " " \o company_name.val))
                               /\ definitions_filled' = TRUE
                               /\ replacement_made' = TRUE
                               /\ replaced_patterns' = MarkReplaced(Term)
                               /\ dpc' = "bracket"
                               /\ UNCHANGED <<def_errors, company_name, page_num, term_i, inst,
                                              filled_areas, def_result>>
                          ELSE HandleError
    /\ UNCHANGED <<entity_data, pdf_doc, matchVars, occ_page, procVars>>

\* lines 367-385: the elif branch, reached only when "<term> means" was not found
TryColon ==
    /\ dpc = "colon"
    /\ tried' = Append(tried, "colon")
    /\ LET hits == search_for(Page, Term \o ":", NoClip)
       IN  IF hits = << >>
           THEN /\ dpc' = "bracket"
                /\ UNCHANGED <<def_errors, company_name, page_num, term_i, inst,
                               replacement_made, definitions_filled,
                               replaced_patterns, filled_areas, inserts, def_result>>
           ELSE \E ok \in BOOLEAN :
                  IF ok
                  THEN /\ inserts' = Append(inserts,
                              Insertion("colon", 2 * (hits[1].x1 + 5),
                                        2 * hits[1].y1, " " \o company_name.val))
                       /\ definitions_filled' = TRUE
                       /\ replacement_made' = TRUE
                       /\ replaced_patterns' = MarkReplaced(Term)
                       /\ dpc' = "bracket"
                       /\ UNCHANGED <<def_errors, company_name, page_num, term_i, inst,
                                      filled_areas, def_result>>
                  ELSE HandleError
    /\ UNCHANGED <<entity_data, pdf_doc, matchVars, occ_page, procVars>>

\* end of the try block of one occurrence: on to the next term
NextTerm ==
    /\ dpc' = "term"
    /\ term_i' = term_i + 1

\* `break` at line 446: leaves the loop over definition_terms
BreakTerms ==
    /\ dpc' = "term"
    /\ term_i' = Len(definition_terms) + 1

\* lines 388-452: `if not replacement_made:` then the bracket pair
TryBracket ==
    /\ dpc = "bracket"
    /\ IF replacement_made
       THEN /\ NextTerm
            /\ UNCHANGED <<def_errors, company_name, page_num, inst, replacement_made,
                           definitions_filled, replaced_patterns, filled_areas,
                           tried, inserts, def_result>>
       ELSE /\ tried' = Append(tried, "bracket")
            /\ LET opening  == search_for(Page, "[", Clip(bracket_search(inst)))
                   relevant == RelevantBrackets(opening, inst.x1, 1)
                   closing  == IF relevant = << >> THEN << >>
                               ELSE search_for(Page, "]",
                                        Clip(closing_bracket_search(relevant[1])))
               IN  IF closing = << >>
                   THEN /\ dpc' = "line"
                        /\ UNCHANGED <<def_errors, company_name, page_num, term_i, inst,
                                       replacement_made, definitions_filled,
                                       replaced_patterns, filled_areas, inserts,
                                       def_result>>
                   ELSE \E ok \in BOOLEAN :
                          IF ok
                          THEN /\ inserts' = Append(inserts,
                                      Insertion("bracket",
                                          relevant[1].x1 + closing[1].x0
                                              - Len(company_name.val) * 5,
                                          2 * (relevant[1].y1 - 3), company_name.val))
                               /\ definitions_filled' = TRUE
                               /\ replacement_made' = TRUE
                               /\ filled_areas' = Append(filled_areas,
                                      Rect(relevant[1].x0 - 20, relevant[1].y0 - 10,
                                           closing[1].x1 + 20, closing[1].y1 + 10))
                               /\ replaced_patterns' = MarkReplaced(Term)
                               /\ BreakTerms
                               /\ UNCHANGED <<def_errors, company_name, page_num, inst, def_result>>
                          ELSE HandleError
    /\ UNCHANGED <<entity_data, pdf_doc, matchVars, occ_page, procVars>>

\* lines 454-487: underscore line anywhere in the bracket search region
TryLine ==
    /\ dpc = "line"
    /\ tried' = Append(tried, "line")
    /\ LET hits == UnderscoreSearch(Page, Clip(bracket_search(inst)), 1)
       IN  IF hits = << >>
           THEN /\ dpc' = "paren"
                /\ UNCHANGED <<def_errors, company_name, page_num, term_i, inst,
                               replacement_made, definitions_filled,
                               replaced_patterns, filled_areas, inserts, def_result>>
           ELSE \E ok \in BOOLEAN :
                  IF ok
                  THEN /\ inserts' = Append(inserts,
                              Insertion("line",
                                  hits[1].x0 + hits[1].x1 - Len(company_name.val) * 5,
                                  2 * (hits[1].y1 - 2), company_name.val))
                       /\ definitions_filled' = TRUE
                       /\ replacement_made' = TRUE
                       /\ filled_areas' = Append(filled_areas,
                              Rect(hits[1].x0 - 20, hits[1].y0 - 10,
                                   hits[1].x1 + 20, hits[1].y1 + 10))
                       /\ replaced_patterns' = MarkReplaced(Term)
                       /\ dpc' = "paren"
                       /\ UNCHANGED <<def_errors, company_name, page_num, term_i, inst, def_result>>
                  ELSE HandleError
    /\ UNCHANGED <<entity_data, pdf_doc, matchVars, occ_page, procVars>>

\* lines 489-515: `if not replacement_made:` then the opening parenthesis
TryParen ==
    /\ dpc = "paren"
    /\ IF replacement_made
       THEN /\ NextTerm
            /\ UNCHANGED <<def_errors, company_name, page_num, inst, replacement_made,
                           definitions_filled, replaced_patterns, filled_areas,
                           tried, inserts, def_result>>
       ELSE /\ tried' = Append(tried, "paren")
            /\ LET hits == search_for(Page, "(", Clip(paren_search(inst)))
               IN  IF hits = << >>
                   THEN /\ dpc' = "direct"
                        /\ UNCHANGED <<def_errors, company_name, page_num, term_i, inst,
                                       replacement_made, definitions_filled,
                                       replaced_patterns, filled_areas, inserts,
                                       def_result>>
                   ELSE \E ok \in BOOLEAN :
                          IF ok
                          THEN /\ inserts' = Append(inserts,
                                      Insertion("paren", 2 * (hits[1].x1 + 2),
                                          2 * hits[1].y1,
                                          "\"" \o company_name.val \o "\""))
                               /\ definitions_filled' = TRUE
                               /\ replacement_made' = TRUE
                               /\ filled_areas' = Append(filled_areas,
                                      Rect(hits[1].x0 - 20, hits[1].y0 - 10,
                                           hits[1].x0 + 200, hits[1].y1 + 10))
                               /\ replaced_patterns' =
                                      IF Term = "Representatives"
                                      THEN MarkReplaced(Term) \cup {"Representative"}
                                      ELSE MarkReplaced(Term)
                               /\ NextTerm
                               /\ UNCHANGED <<def_errors, company_name, page_num, inst, def_result>>
                          ELSE HandleError
    /\ UNCHANGED <<entity_data, pdf_doc, matchVars, occ_page, procVars>>

TryDirectGivesUp ==
    /\ dpc = "direct"
    /\ tried' = Append(tried, "direct")
    /\ NextTerm
    /\ UNCHANGED <<def_errors, company_name, page_num, inst, replacement_made,
                   definitions_filled, replaced_patterns, filled_areas, inserts,
                   def_result>>
    /\ UNCHANGED <<entity_data, pdf_doc, matchVars, occ_page, procVars>>

\* lines 516-530: the else branch of the parenthesis test
TryDirect ==
    /\ dpc = "direct"
    /\ tried' = Append(tried, "direct")
    /\ \E ok \in BOOLEAN :
         IF ok
         THEN /\ inserts' = Append(inserts,
                     Insertion("direct", 2 * (inst.x1 + 10), 2 * inst.y1,
                               " (\"" \o company_name.val \o "\")"))
              /\ definitions_filled' = TRUE
              /\ filled_areas' = Append(filled_areas,
                     Rect(inst.x0 - 20, inst.y0 - 10, inst.x1 + 200, inst.y1 + 10))
              /\ replaced_patterns' = MarkReplaced(Term)
              /\ NextTerm
              /\ UNCHANGED <<def_errors, company_name, page_num, inst, replacement_made,
                             def_result>>
         ELSE HandleError
    /\ UNCHANGED <<entity_data, pdf_doc, matchVars, occ_page, procVars>>

\* lines 535-540
DefReturn ==
    /\ dpc = "return"
    /\ dpc' = "done"
    /\ def_result' = [returned |-> TRUE, value |-> definitions_filled]
    /\ UNCHANGED <<def_errors, company_name, page_num, term_i, inst, replacement_made,
                   definitions_filled, replaced_patterns, filled_areas, tried,
                   inserts>>
    /\ UNCHANGED <<entity_data, pdf_doc, matchVars, occ_page, procVars>>

NextDef ==
    \/ DefBegin \/ DefPage \/ DefTerm
    \/ TryUnderscore \/ TryMeans \/ TryColon \/ TryBracket \/ TryLine
    \/ TryParen \/ TryDirect
    \/ DefReturn

\* --------------------------------------------------------------------------
\* fallback_placement: keyword locator
\* --------------------------------------------------------------------------

signature_keywords ==
    << "signature", "sign here", "by:", "signed by", "name:", "title:", "date:" >>

\* for inst in instances: signature_locations.append((page_num, inst, keyword))
Located(p, hits, keyword) ==
    [ h \in 1..Len(hits) |-> [page_num |-> p, rect |-> hits[h], keyword |-> keyword] ]

\* for keyword in signature_keywords
RECURSIVE KeywordScan(_, _, _)
KeywordScan(doc, p, k) ==
    IF k > Len(signature_keywords) THEN << >>
    ELSE Located(p, search_for(doc[p + 1], signature_keywords[k], NoClip),
                 signature_keywords[k])
         \o KeywordScan(doc, p, k + 1)

\* for page_num in range(len(pdf_doc))
RECURSIVE PageScan(_, _)
PageScan(doc, p) ==
    IF p >= Len(doc) THEN << >>
    ELSE KeywordScan(doc, p, 1) \o PageScan(doc, p + 1)

signature_locations(doc) == PageScan(doc, 0)

FirstLocation(locs) == locs[1]

\* signature_locations[-1]
LastLocation(locs) == locs[Len(locs)]

\* lines 571-581: target page and sig_rect
signature_target(doc) ==
    LET locs == signature_locations(doc)
    IN  IF locs # << >>
        THEN LET loc == LastLocation(locs)
             IN  [page |-> loc.page_num,
                  rect |-> Rect(loc.rect.x0, loc.rect.y1 + 10,
                                loc.rect.x0 + 150, loc.rect.y1 + 60)]
        ELSE [page |-> Len(doc) - 1,
              rect |-> Rect(50, doc[Len(doc)].height - 150,
                            200, doc[Len(doc)].height - 100)]

\* --------------------------------------------------------------------------
\* process_pdf and the handlers it calls
\* --------------------------------------------------------------------------

FirstWidgetOnly ==
    IF pdf_doc[loop_page + 1].widgets = << >> THEN << >>
    ELSE << pdf_doc[loop_page + 1].widgets[1] >>

\* list(page.widgets())
Widgets == pdf_doc[loop_page + 1].widgets

Widget == Widgets[loop_idx]

Raise(call, page, idx) ==
    raised' = raised \cup {[call |-> call, page |-> page, idx |-> idx]}

\* lines 670-678: load the entity data and open the document
OpenDocument ==
    /\ pc = "start"
    /\ \E ok \in BOOLEAN :
         IF ok
         THEN /\ src_doc' = "open"
              /\ self_doc' = "source"
              /\ pc' = "form"
              /\ UNCHANGED <<result, raised>>
         ELSE /\ pc' = "FAILED"
              /\ result' = "False"
              /\ Raise("open", 0, 0)
              /\ UNCHANGED <<src_doc, self_doc>>
    /\ loop_page' = 0
    /\ loop_idx' = 1
    /\ UNCHANGED <<form_fields_filled, signature_fields_filled, field_values,
                   attempts, image_inserts, temp_exists, ops, sig_target,
                   y_position, entity_i, text_lines, flat_doc, new_doc,
                   flat_pages, saved>>
    /\ UNCHANGED <<entity_data, pdf_doc, matchVars, defVars>>

\* fill_form_fields, one widget (or one loop header) per step: lines 110-134
FormWidget ==
    /\ pc = "form"
    /\ IF loop_page >= Len(pdf_doc)
       THEN /\ pc' = "sig"
            /\ loop_page' = 0
            /\ loop_idx' = 1
            /\ UNCHANGED <<form_fields_filled, field_values, attempts, raised>>
       ELSE IF loop_idx > Len(Widgets)
       THEN /\ loop_page' = loop_page + 1
            /\ loop_idx' = 1
            /\ UNCHANGED <<pc, form_fields_filled, field_values, attempts, raised>>
       ELSE /\ loop_idx' = loop_idx + 1
            /\ UNCHANGED <<pc, loop_page>>
            /\ LET value == find_matching_entity_value(entity_data, Widget.name)
               IN  IF Widget.type = "text" /\ Truthy(value)
                   THEN /\ attempts' = attempts \cup
                               {[stage |-> "form", page |-> loop_page, idx |-> loop_idx]}
                        /\ \E ok \in BOOLEAN :
                             IF ok
                             THEN /\ field_values' = field_values \cup
                                         {[page |-> loop_page, idx |-> loop_idx,
                                           value |-> value.val]}
                                  /\ form_fields_filled' = TRUE
                                  /\ raised' = raised
                             ELSE /\ Raise("field_value", loop_page, loop_idx)
                                  /\ UNCHANGED <<field_values, form_fields_filled>>
                   ELSE UNCHANGED <<form_fields_filled, field_values, attempts,
                                    raised>>
    /\ UNCHANGED <<signature_fields_filled, image_inserts, temp_exists, ops,
                   sig_target, y_position, entity_i, text_lines, src_doc, flat_doc,
                   new_doc, self_doc, flat_pages, saved, result>>
    /\ UNCHANGED <<entity_data, pdf_doc, matchVars, defVars>>

LeaveArtifact(exists) == exists

\* lines 231-232: `if os.path.exists(path): os.remove(path)`; whether the file
\* exists afterwards
RemoveIfExists(exists) == FALSE

\* place_signature, one widget (or one loop header) per step: lines 207-237.
\* create_signature_pdf writes temp_signature.pdf when it returns a path.
SignatureWidget ==
    /\ pc = "sig"
    /\ IF loop_page >= Len(pdf_doc)
       THEN /\ pc' = "decide"
            /\ UNCHANGED <<loop_page, loop_idx, signature_fields_filled, attempts,
                           image_inserts, temp_exists, raised>>
       ELSE IF loop_idx > Len(Widgets)
       THEN /\ loop_page' = loop_page + 1
            /\ loop_idx' = 1
            /\ UNCHANGED <<pc, signature_fields_filled, attempts, image_inserts,
                           temp_exists, raised>>
       ELSE /\ loop_idx' = loop_idx + 1
            /\ UNCHANGED <<pc, loop_page>>
            /\ IF Widget.type = "signature"
               THEN /\ attempts' = attempts \cup
                           {[stage |-> "sig", page |-> loop_page, idx |-> loop_idx]}
                    /\ \E outcome \in {"placed", "no_signature_pdf", "insert_raised"} :
                         CASE outcome = "placed" ->
                                /\ image_inserts' = Append(image_inserts,
                                       [page |-> loop_page, rect |-> Widget.rect,
                                        via |-> "field"])
                                /\ signature_fields_filled' = TRUE
                                /\ temp_exists' = RemoveIfExists(TRUE)
                                /\ raised' = raised
                           [] outcome = "no_signature_pdf" ->
                                /\ Raise("create_signature_pdf", loop_page, loop_idx)
                                /\ UNCHANGED <<image_inserts, signature_fields_filled,
                                               temp_exists>>
                           [] outcome = "insert_raised" ->
                                /\ temp_exists' = TRUE
                                /\ Raise("insert_image", loop_page, loop_idx)
                                /\ UNCHANGED <<image_inserts, signature_fields_filled>>
               ELSE UNCHANGED <<signature_fields_filled, attempts, image_inserts,
                                temp_exists, raised>>
    /\ UNCHANGED <<form_fields_filled, field_values, ops, sig_target, y_position,
                   entity_i, text_lines, src_doc, flat_doc, new_doc, self_doc,
                   flat_pages, saved, result>>
    /\ UNCHANGED <<entity_data, pdf_doc, matchVars, defVars>>

\* line 689: `if not form_fields_filled and not signature_fields_filled`
FallbackAlways == TRUE

FallbackNeeded == ~form_fields_filled /\ ~signature_fields_filled

\* lines 689-690 and 549-552: enter fallback_placement, which first calls
\* fill_definition_fields, or go on to flatten
Decide ==
    /\ pc = "decide"
    /\ IF FallbackNeeded
       THEN /\ pc' = "definitions"
            /\ ops' = Append(ops, "definition_fill")
            /\ dpc' = "begin"
            /\ UNCHANGED <<def_errors, company_name, page_num, term_i, inst, replacement_made,
                           definitions_filled, replaced_patterns, filled_areas,
                           occ_page, tried, inserts, def_result>>
       ELSE /\ pc' = "flatten"
            /\ UNCHANGED <<ops, defVars>>
    /\ UNCHANGED <<loop_page, loop_idx, form_fields_filled, signature_fields_filled,
                   field_values, attempts, image_inserts, temp_exists, sig_target,
                   y_position, entity_i, text_lines, src_doc, flat_doc, new_doc,
                   self_doc, flat_pages, saved, result>>
    /\ raised' = raised
    /\ UNCHANGED <<entity_data, pdf_doc, matchVars>>

\* lines 554-581: after fill_definition_fields returned, scan for the keywords
\* and choose the target.  The company names of the entity records hold none of
\* the keywords, so text inserted by the definition fill yields no match.
FallbackScan ==
    /\ pc = "definitions"
    /\ dpc = "done"
    /\ ops' = Append(ops, "keyword_scan")
    /\ sig_target' = signature_target(pdf_doc)
    /\ pc' = "image"
    /\ UNCHANGED <<loop_page, loop_idx, form_fields_filled, signature_fields_filled,
                   field_values, attempts, image_inserts, temp_exists, y_position,
                   entity_i, text_lines, src_doc, flat_doc, new_doc, self_doc,
                   flat_pages, saved, result>>
    /\ raised' = raised
    /\ UNCHANGED <<entity_data, pdf_doc, matchVars, defVars>>

\* lines 583-588
FallbackImage ==
    /\ pc = "image"
    /\ ops' = Append(ops, "image_insert")
    /\ \E ok \in BOOLEAN :
         IF ok
         THEN image_inserts' = Append(image_inserts,
                  [page |-> sig_target.page, rect |-> sig_target.rect,
                   via |-> "fallback"]) /\ raised' = raised
         ELSE image_inserts' = image_inserts
              /\ Raise("insert_image", sig_target.page, 0)
    /\ pc' = "entity_begin"
    /\ UNCHANGED <<loop_page, loop_idx, form_fields_filled, signature_fields_filled,
                   field_values, attempts, temp_exists, sig_target, y_position,
                   entity_i, text_lines, src_doc, flat_doc, new_doc, self_doc,
                   flat_pages, saved, result>>
    /\ UNCHANGED <<entity_data, pdf_doc, matchVars, defVars>>

y_position_above(sig_rect) == sig_rect.y0 - 20

\* line 602: y_position = sig_rect.y1 + 20
initial_y_position(sig_rect) == sig_rect.y1 + 20

\* lines 591 and 601-602: add_entity_text(target_page, sig_rect) is called
EntityTextBegin ==
    /\ pc = "entity_begin"
    /\ ops' = Append(ops, "entity_text")
    /\ y_position' = initial_y_position(sig_target.rect)
    /\ entity_i' = 1
    /\ pc' = "entity_text"
    /\ UNCHANGED <<loop_page, loop_idx, form_fields_filled, signature_fields_filled,
                   field_values, attempts, image_inserts, temp_exists, sig_target,
                   text_lines, src_doc, flat_doc, new_doc, self_doc, flat_pages,
                   saved, result>>
    /\ raised' = raised
    /\ UNCHANGED <<entity_data, pdf_doc, matchVars, defVars>>

\* lines 604-618: one key/value line per step; the try encloses the whole loop
EntityLine ==
    /\ pc = "entity_text"
    /\ IF entity_i > Len(entity_data)
       THEN /\ pc' = "flatten"
            /\ UNCHANGED <<y_position, entity_i, text_lines, raised>>
       ELSE \E ok \in BOOLEAN :
              IF ok
              THEN /\ text_lines' = Append(text_lines,
                          [page |-> sig_target.page, x |-> sig_target.rect.x0,
                           y |-> y_position,
                           text |-> entity_data[entity_i].key \o ": "
                                      \o entity_data[entity_i].value])
                   /\ y_position' = y_position + 20
                   /\ entity_i' = entity_i + 1
                   /\ pc' = pc
                   /\ raised' = raised
              ELSE /\ pc' = "flatten"
                   /\ Raise("insert_text", sig_target.page, entity_i)
                   /\ UNCHANGED <<y_position, entity_i, text_lines>>
    /\ UNCHANGED <<loop_page, loop_idx, form_fields_filled, signature_fields_filled,
                   field_values, attempts, image_inserts, temp_exists, ops,
                   sig_target, src_doc, flat_doc, new_doc, self_doc, flat_pages,
                   saved, result>>
    /\ UNCHANGED <<entity_data, pdf_doc, matchVars, defVars>>

\* lines 627-629: flattened_doc = fitz.open()
FlattenBegin ==
    /\ pc = "flatten"
    /\ flat_doc' = "open"
    /\ flat_pages' = 0
    /\ loop_page' = 0
    /\ pc' = "rasterize"
    /\ UNCHANGED <<loop_idx, form_fields_filled, signature_fields_filled,
                   field_values, attempts, image_inserts, temp_exists, ops,
                   sig_target, y_position, entity_i, text_lines, src_doc, new_doc,
                   self_doc, saved, result>>
    /\ raised' = raised
    /\ UNCHANGED <<entity_data, pdf_doc, matchVars, defVars>>

\* lines 632-646: rasterize one page per step, then close the source document
Rasterize ==
    /\ pc = "rasterize"
    /\ IF loop_page < Len(pdf_doc)
       THEN \E ok \in BOOLEAN :
              IF ok
              THEN /\ flat_pages' = flat_pages + 1
                   /\ loop_page' = loop_page + 1
                   /\ pc' = pc
                   /\ UNCHANGED <<src_doc, raised>>
              ELSE /\ pc' = "save"
                   /\ Raise("get_pixmap", loop_page, 0)
                   /\ UNCHANGED <<flat_pages, loop_page, src_doc>>
       ELSE /\ src_doc' = "closed"
            /\ pc' = "write"
            /\ UNCHANGED <<flat_pages, loop_page, raised>>
    /\ UNCHANGED <<loop_idx, form_fields_filled, signature_fields_filled,
                   field_values, attempts, image_inserts, temp_exists, ops,
                   sig_target, y_position, entity_i, text_lines, flat_doc, new_doc,
                   self_doc, saved, result>>
    /\ UNCHANGED <<entity_data, pdf_doc, matchVars, defVars>>

\* lines 649-658: write the flattened document and re-open it from memory
FlattenWrite ==
    /\ pc = "write"
    /\ \E outcome \in {"reopened", "write_raised", "open_raised"} :
         CASE outcome = "reopened" ->
                /\ flat_doc' = "closed"
                /\ new_doc' = "open"
                /\ self_doc' = "flattened"
                /\ raised' = raised
           [] outcome = "write_raised" ->
                /\ Raise("write", 0, 0)
                /\ UNCHANGED <<flat_doc, new_doc, self_doc>>
           [] outcome = "open_raised" ->
                /\ flat_doc' = "closed"
                /\ Raise("reopen", 0, 0)
                /\ UNCHANGED <<new_doc, self_doc>>
    /\ pc' = "save"
    /\ UNCHANGED <<loop_page, loop_idx, form_fields_filled, signature_fields_filled,
                   field_values, attempts, image_inserts, temp_exists, ops,
                   sig_target, y_position, entity_i, text_lines, src_doc,
                   flat_pages, saved, result>>
    /\ UNCHANGED <<entity_data, pdf_doc, matchVars, defVars>>

\* state of the handle self.pdf_doc refers to
SelfHandle == IF self_doc = "flattened" THEN new_doc ELSE src_doc

\* self.pdf_doc.close()
CloseSelf ==
    IF self_doc = "flattened"
    THEN new_doc' = "closed" /\ src_doc' = src_doc
    ELSE src_doc' = "closed" /\ new_doc' = new_doc

\* lines 696-708: save, close, return; the except handler of process_pdf.
\* Saving a closed document raises; the handler's `if self.pdf_doc:` takes the
\* length of the document, which a closed document may refuse with an exception
\* that then leaves process_pdf.
Save ==
    /\ pc = "save"
    /\ IF SelfHandle = "open"
       THEN \E ok \in BOOLEAN :
              IF ok
              THEN /\ saved' = self_doc
                   /\ CloseSelf
                   /\ result' = "True"
                   /\ pc' = "SAVED"
                   /\ raised' = raised
              ELSE /\ CloseSelf
                   /\ result' = "False"
                   /\ pc' = "FAILED"
                   /\ saved' = saved
                   /\ Raise("save", 0, 0)
       ELSE /\ pc' = "FAILED"
            /\ \E escapes \in BOOLEAN :
                 result' = IF escapes THEN "raised" ELSE "False"
            /\ Raise("save", 0, 0)
            /\ UNCHANGED <<saved, src_doc, new_doc>>
    /\ UNCHANGED <<loop_page, loop_idx, form_fields_filled, signature_fields_filled,
                   field_values, attempts, image_inserts, temp_exists, ops,
                   sig_target, y_position, entity_i, text_lines, flat_doc,
                   self_doc, flat_pages>>
    /\ UNCHANGED <<entity_data, pdf_doc, matchVars, defVars>>

Next ==
    \/ OpenDocument \/ FormWidget \/ SignatureWidget \/ Decide
    \/ NextDef
    \/ FallbackScan \/ FallbackImage \/ EntityTextBegin \/ EntityLine
    \/ FlattenBegin \/ Rasterize \/ FlattenWrite \/ Save

\* --------------------------------------------------------------------------
\* Documents
\* --------------------------------------------------------------------------

MaxLeadingBlank == 5    \* blank pages in front of the pages that carry text

MaxBody == 2            \* pages after the leading blank ones

Line(text, x, y) == [text |-> text, x |-> x, y |-> y]

TextPage(lines) == [lines |-> lines, widgets |-> << >>, height |-> 792]

BlankPage == TextPage(<< >>)

FormPage(widgets, height) == [lines |-> << >>, widgets |-> widgets, height |-> height]

Field(name, type, x, y) ==
    [name |-> name, type |-> type, rect |-> Rect(x, y, x + 200, y + 40)]

\* pages with form widgets
WidgetPages ==
    { FormPage(<< Field("Company Name", "text", 50, 100),
                  Field("Mailing Address", "text", 50, 200) >>, 792),
      FormPage(<< Field("Phone", "text", 50, 100),
                  Field("Agree", "checkbox", 50, 200) >>, 842),
      FormPage(<< Field("Signature1", "signature", 50, 600) >>, 792) }

\* pages with signature keywords
KeywordPages ==
    { [lines |-> << Line("Date: ", 50, 100), Line("Signature", 50, 600) >>,
       widgets |-> << >>, height |-> 792],
      [lines |-> << Line("Signed by: ", 300, 650), Line("By: ", 300, 700) >>,
       widgets |-> << >>, height |-> 842] }

\* page layouts around one occurrence of the term
DefinitionPages ==
    { TextPage(<< Line("Recipient: [_______] (the", 100, 100) >>),
      TextPage(<< Line("Recipient means the party", 100, 100) >>),
      TextPage(<< Line("the recipient: ", 100, 100) >>),
      TextPage(<< Line("Recipient [  ]", 100, 100) >>),
      TextPage(<< Line("Recipient [", 100, 100), Line("___", 100, 120),
                  Line("Recipient", 100, 300) >>),
      TextPage(<< Line("Recipient (the", 100, 100) >>),
      TextPage(<< Line("Recipient", 20, 100) >>) }

\* a document: leading blank pages, then a body of pages
Documents ==
    { [ i \in 1..(k + Len(body)) |-> IF i <= k THEN BlankPage ELSE body[i - k] ] :
        k \in 0..MaxLeadingBlank,
        body \in UNION { [1..n -> DefinitionPages \cup {BlankPage}] : n \in 1..MaxBody } }

\* documents handed to process_pdf: a first page of any kind, then pages with
\* widgets or keywords
RunDocuments ==
    { << first >> \o rest :
        first \in DefinitionPages \cup WidgetPages \cup KeywordPages,
        rest \in UNION { [1..n -> WidgetPages \cup KeywordPages] :
                         n \in 0..(MaxBody - 1) } }

DefinitionEntities ==
    { << >>,
      << [key |-> "Address", value |-> "1 Main St"] >>,
      << [key |-> "Address", value |-> "1 Main St"],
         [key |-> "NAME", value |-> "Acme Corp"] >>,
      << [key |-> "company", value |-> ""],
         [key |-> "Name", value |-> "Acme Corp"] >> }

NoRect == Rect(0, 0, 0, 0)

NotReturned == [returned |-> FALSE, value |-> FALSE]

\* fill_definition_fields is about to be called
DefEntry ==
    /\ dpc = "begin"
    /\ company_name = None
    /\ page_num = 0
    /\ term_i = 1
    /\ inst = NoRect
    /\ replacement_made = FALSE
    /\ definitions_filled = FALSE
    /\ replaced_patterns = {}
    /\ filled_areas = << >>
    /\ occ_page = -1
    /\ tried = << >>
    /\ inserts = << >>
    /\ def_errors = {}
    /\ def_result = NotReturned

NoTarget == [page |-> 0, rect |-> NoRect]

\* process_pdf has not been called
ProcStart ==
    /\ loop_page = 0
    /\ loop_idx = 1
    /\ form_fields_filled = FALSE
    /\ signature_fields_filled = FALSE
    /\ field_values = {}
    /\ attempts = {}
    /\ image_inserts = << >>
    /\ temp_exists = FALSE
    /\ ops = << >>
    /\ sig_target = NoTarget
    /\ y_position = 0
    /\ entity_i = 1
    /\ text_lines = << >>
    /\ src_doc = "none"
    /\ flat_doc = "none"
    /\ new_doc = "none"
    /\ self_doc = "none"
    /\ flat_pages = 0
    /\ saved = "none"
    /\ result = "running"
    /\ raised = {}

\* a handler is exercised on its own, outside process_pdf
ProcIdle ==
    /\ pc = "unit"
    /\ ProcStart

MatchIdle ==
    /\ field_name = ""
    /\ match_result = [called |-> TRUE, some |-> FALSE, val |-> ""]

InitDef ==
    /\ entity_data \in DefinitionEntities
    /\ pdf_doc \in Documents
    /\ MatchIdle
    /\ DefEntry
    /\ ProcIdle

SpecDef == InitDef /\ [][NextDef]_vars

\* --------------------------------------------------------------------------
\* Inputs of the field matcher
\* --------------------------------------------------------------------------

MaxEntity == 2          \* entity records hold at most this many pairs

EntityKeys ==
    { "Company", "company", "Name", "Address", "Title", "Position", "Date",
      "Company Name" }

EntityValues == { "", "Acme Corp" }

FieldNames ==
    { "Company", "COMPANY NAME", "Recipient", "Mailing Address", "Job Title",
      "Title/Date", "Signature", "Phone", "Name and Address" }

\* a dict has no two equal keys
EntityRecords ==
    UNION { { e \in [1..n -> [key : EntityKeys, value : EntityValues]] :
                \A i, j \in 1..n : i # j => e[i].key # e[j].key } :
            n \in 0..MaxEntity }

NotCalled == [called |-> FALSE, some |-> FALSE, val |-> ""]

DefIdle ==
    /\ dpc = "done"
    /\ company_name = None
    /\ page_num = 0
    /\ term_i = 1
    /\ inst = NoRect
    /\ replacement_made = FALSE
    /\ definitions_filled = FALSE
    /\ replaced_patterns = {}
    /\ filled_areas = << >>
    /\ occ_page = -1
    /\ tried = << >>
    /\ inserts = << >>
    /\ def_errors = {}
    /\ def_result = NotReturned

InitMatch ==
    /\ entity_data \in EntityRecords
    /\ field_name \in FieldNames
    /\ match_result = NotCalled
    /\ pdf_doc = << >>
    /\ DefIdle
    /\ ProcIdle

Match ==
    /\ ~match_result.called
    /\ LET r == find_matching_entity_value(entity_data, field_name)
       IN  match_result' = [called |-> TRUE, some |-> r.some, val |-> r.val]
    /\ UNCHANGED <<entity_data, field_name, pdf_doc, defVars, procVars>>

NextMatch == Match

SpecMatch == InitMatch /\ [][NextMatch]_vars

\* --------------------------------------------------------------------------
\* One run of process_pdf
\* --------------------------------------------------------------------------

RunEntities ==
    { << >>,
      << [key |-> "Address", value |-> "1 Main St"],
         [key |-> "NAME", value |-> "Acme Corp"] >> }

Init ==
    /\ entity_data \in RunEntities
    /\ pdf_doc \in RunDocuments
    /\ MatchIdle
    /\ DefIdle
    /\ pc = "start"
    /\ ProcStart

Spec == Init /\ [][Next]_vars

\* --------------------------------------------------------------------------
\* Properties of the field matcher (checked under SpecMatch)
\* --------------------------------------------------------------------------

MinOf(S) == CHOOSE x \in S : \A y \in S : x <= y

Returned == [some |-> match_result.some, val |-> match_result.val]

ValueAt(i) == Some(entity_data[i].value)

FieldLower == Lower(field_name)

\* entity positions whose key equals the field name, ignoring case
ExactIdx == { i \in 1..Len(entity_data) : Lower(entity_data[i].key) = FieldLower }

CompanyHit ==
    \E p \in 1..Len(company_field_patterns) : Contains(company_field_patterns[p], FieldLower)

CompanyIdx ==
    { i \in 1..Len(entity_data) : Lower(entity_data[i].key) \in {"company", "name", "entity"} }

AddressHit ==
    \E p \in 1..Len(address_field_patterns) : Contains(address_field_patterns[p], FieldLower)

AddressIdx ==
    { i \in 1..Len(entity_data) : Lower(entity_data[i].key) \in {"address", "location"} }

ExactProduces == ExactIdx # {}

CompanyProduces == CompanyHit /\ CompanyIdx # {}

AddressProduces == AddressHit /\ AddressIdx # {}

\* the keyword table is reached: no earlier rule produced a value
TableReached == ~ExactProduces /\ ~CompanyProduces /\ ~AddressProduces

\* table rows whose pattern is contained in the field name
TableHits == { m \in 1..Len(field_mappings) : Contains(field_mappings[m].pattern, FieldLower) }

\* entity positions whose lower-cased key contains candidate k of row m
KeyHits(m, k) ==
    { i \in 1..Len(entity_data) :
        Contains(field_mappings[m].keys[k], Lower(entity_data[i].key)) }

RowCandidates(m) == { k \in 1..Len(field_mappings[m].keys) : KeyHits(m, k) # {} }

RowHits(m) == UNION { KeyHits(m, k) : k \in 1..Len(field_mappings[m].keys) }

ProducingRows == { m \in TableHits : RowCandidates(m) # {} }

\* C2: find_matching_entity_value returns None or a value stored in the entity
\* record under some key; it never returns a string that is not one of the
\* record's values.
C2_NoFabrication ==
    (match_result.called /\ match_result.some)
        => \E i \in 1..Len(entity_data) : entity_data[i].value = match_result.val

\* a value was returned by the keyword table from a record of two pairs
C2_Witness ==
    /\ match_result.called /\ match_result.some
    /\ Len(entity_data) = 2
    /\ TableReached
    /\ match_result.val # ""

\* C9: the rules apply in strict priority order: exact case-insensitive key
\* match (first such key in iteration order), then company category, then
\* address category, then keyword table; a rule's value is returned only when
\* every earlier rule produced none.
C9_PriorityOrder ==
    match_result.called =>
        /\ ExactProduces => Returned = ValueAt(MinOf(ExactIdx))
        /\ (~ExactProduces /\ CompanyProduces) => Returned = ValueAt(MinOf(CompanyIdx))
        /\ (~ExactProduces /\ ~CompanyProduces /\ AddressProduces)
               => Returned = ValueAt(MinOf(AddressIdx))
        /\ TableReached =>
               /\ Returned.some <=> ProducingRows # {}
               /\ Returned.some => \E m \in ProducingRows :
                                       \E i \in RowHits(m) : Returned = ValueAt(i)

\* the field name equals a key, a company pattern is contained in it too, and
\* the company category would have produced another value
C9_Witness ==
    /\ match_result.called
    /\ ExactProduces /\ CompanyProduces
    /\ ValueAt(MinOf(ExactIdx)) # ValueAt(MinOf(CompanyIdx))
    /\ Returned = ValueAt(MinOf(ExactIdx))

\* C10 as stated: only the first table pattern contained in the field name is
\* used, and the value returned is that of the first entity key, in iteration
\* order, whose lower-cased key contains any of that pattern's candidate keys.
C10_FirstPatternFirstEntityKey ==
    (match_result.called /\ TableReached) =>
        Returned = IF TableHits = {} THEN None
                   ELSE IF RowHits(MinOf(TableHits)) = {} THEN None
                   ELSE ValueAt(MinOf(RowHits(MinOf(TableHits))))

\* C10 amended: the table patterns contained in the field name are tried in
\* table order until one yields a value; within a pattern the candidate keys are
\* tried in list order, and the value returned is that of the first entity key,
\* in iteration order, whose lower-cased key contains the first candidate key
\* that some entity key contains.
C10_CandidateMajor ==
    (match_result.called /\ TableReached) =>
        Returned = IF ProducingRows = {} THEN None
                   ELSE LET m == MinOf(ProducingRows)
                            k == MinOf(RowCandidates(m))
                        IN  ValueAt(MinOf(KeyHits(m, k)))

\* "Job Title" against a record holding Position before Title: the value of
\* Title (first candidate) is returned, not that of the first matching key
C10_Witness ==
    /\ match_result.called /\ TableReached
    /\ ProducingRows # {}
    /\ LET m == MinOf(ProducingRows)
           k == MinOf(RowCandidates(m))
       IN  /\ MinOf(KeyHits(m, k)) # MinOf(RowHits(m))
           /\ Returned = ValueAt(MinOf(KeyHits(m, k)))
           /\ Returned # ValueAt(MinOf(RowHits(m)))

\* --------------------------------------------------------------------------
\* Properties of fill_definition_fields (checked under SpecDef)
\* --------------------------------------------------------------------------

InsertsOf(t) == { i \in 1..Len(inserts) : inserts[i].term = t }

\* scoped pages that hold at least one occurrence of the term
ScopedPagesWith(t) ==
    { p \in 1..max_pages_to_search : search_for(pdf_doc[p], t, NoClip) # << >> }

\* C1: in one run, at most one insertion of the company name is made for
\* "Recipient", and once "Recipient" is in replaced_patterns no later step of
\* the run performs an insertion.
C1_AtMostOnce ==
    /\ [](Cardinality(InsertsOf("Recipient")) <= 1)
    /\ [][("Recipient" \in replaced_patterns) => (inserts' = inserts)]_vars

\* the run is over, two scoped pages hold the term (one of them twice) and one
\* insertion was made
C1_Witness ==
    /\ dpc = "done"
    /\ def_result.value
    /\ Cardinality(ScopedPagesWith("Recipient")) >= 2
    /\ \E p \in ScopedPagesWith("Recipient") :
           Len(search_for(pdf_doc[p], "Recipient", NoClip)) >= 2
    /\ Cardinality(InsertsOf("Recipient")) = 1
    /\ "Recipient" \in replaced_patterns

StrategyOrder ==
    << "underscore", "means", "colon", "bracket", "line", "paren", "direct" >>

\* insertions made for the occurrence last accepted
OccurrenceInserts ==
    { i \in 1..Len(inserts) : inserts[i].page = occ_page /\ inserts[i].inst = inst }

\* an underscore run lies in the search region right of the accepted occurrence
UnderscoreRunFound ==
    UnderscoreSearch(pdf_doc[occ_page + 1], Clip(search_area(inst)), 1) # << >>

\* C3: for one processed occurrence the strategies are attempted in the order
\* underscore run, "<Term> means", "<Term>:", bracket pair, bare underscore
\* line, parenthesis, direct placement; the first that succeeds performs the
\* only insertion and no later strategy is attempted; when an underscore run is
\* found right of the term no other strategy executes.
C3_StrategyOrder ==
    occ_page >= 0 =>
        /\ Len(tried) <= Len(StrategyOrder)
        /\ tried = SubSeq(StrategyOrder, 1, Len(tried))
        /\ Cardinality(OccurrenceInserts) <= 1
        /\ \A i \in OccurrenceInserts :
               /\ tried # << >>
               /\ inserts[i].strategy = tried[Len(tried)]
        /\ tried \notin { << >>, << "underscore" >> } => ~UnderscoreRunFound

\* the occurrence is finished, the underscore strategy made the insertion, and
\* the page also holds "Recipient:", a bracket pair and a parenthesis
C3_Witness ==
    /\ occ_page >= 0
    /\ dpc = "term" /\ term_i = 2 /\ page_num = occ_page
    /\ tried = << "underscore" >>
    /\ \E i \in OccurrenceInserts : inserts[i].strategy = "underscore"
    /\ search_for(pdf_doc[occ_page + 1], "Recipient:", NoClip) # << >>
    /\ search_for(pdf_doc[occ_page + 1], "]", NoClip) # << >>
    /\ search_for(pdf_doc[occ_page + 1], "(", Clip(paren_search(inst))) # << >>

\* C8: no recorded fill rectangle intersects a previously recorded one, and a
\* strategy is attempted only for a candidate whose inflated rectangle
\* intersects no rectangle of filled_areas.
C8_NoOverlap ==
    /\ [](\A i, j \in 1..Len(filled_areas) :
             i < j => ~Intersects(filled_areas[i], filled_areas[j]))
    /\ [][(tried' # tried /\ tried' # << >>) => ~area_overlap(inst)]_vars

\* a fill was accepted and recorded on one page while a later scoped page holds
\* another occurrence of the term
C8_Witness ==
    /\ dpc = "done"
    /\ Len(filled_areas) = 1
    /\ Len(inserts) = 1
    /\ \E p \in ScopedPagesWith("Recipient") : p > inserts[1].page + 1

\* --------------------------------------------------------------------------
\* Properties of process_pdf (checked under Spec)
\* --------------------------------------------------------------------------

FillReported == form_fields_filled \/ signature_fields_filled

\* process_pdf is past the test of line 686
Decided == src_doc # "none" /\ pc \notin {"start", "form", "sig", "decide"}

FallbackImages == { i \in 1..Len(image_inserts) : image_inserts[i].via = "fallback" }

NoFallbackOperation ==
    /\ ops = << >>
    /\ def_result = NotReturned
    /\ inserts = << >>
    /\ sig_target = NoTarget
    /\ FallbackImages = {}
    /\ text_lines = << >>

\* C4: fallback_placement is invoked if and only if fill_form_fields and
\* place_signature both reported no fill; when either reported a fill, no
\* definition fill, keyword scan, fallback image insertion or entity text
\* annotation is ever performed, and the step after the test is flatten.
C4_FallbackIffNoFill ==
    /\ [](Decided => ((ops # << >>) <=> ~FillReported))
    /\ [](~Decided => NoFallbackOperation)
    /\ [](FillReported => NoFallbackOperation)
    /\ [][(pc = "decide" /\ FillReported) => (pc' = "flatten")]_vars

\* a filled text field suppressed the fallback on a document where the
\* definition fill had a term to fill, and the run was saved
C4_Witness ==
    /\ pc = "SAVED"
    /\ form_fields_filled
    /\ ~signature_fields_filled
    /\ ScopedPagesWith("Recipient") # {}
    /\ Truthy(find_company_name(entity_data))
    /\ NoFallbackOperation

ImageRaised ==
    \E r \in raised : r.call \in {"insert_image", "create_signature_pdf"}

\* C5: in every run that reaches SAVED and in which no image insertion raised,
\* the signature image has been inserted at least once, and by the fallback
\* placement whenever no signature-typed field was filled.
C5_SignatureAlwaysInserted ==
    (pc = "SAVED" /\ ~ImageRaised)
        => /\ Len(image_inserts) >= 1
           /\ ~signature_fields_filled => FallbackImages # {}

FlattenRaised ==
    \E r \in raised : r.call \in {"get_pixmap", "write", "reopen"}

\* C6: process_pdf returns True only if nothing raised during flatten_pdf,
\* every page was rasterized and the document saved is the flattened one.
C6_TrueOnlyIfFlattened ==
    result = "True"
        => /\ ~FlattenRaised
           /\ flat_pages = Len(pdf_doc)
           /\ saved = "flattened"

KeywordHits(p, k) == search_for(pdf_doc[p + 1], signature_keywords[k], NoClip)

KeywordPagesOf ==
    { p \in 0..(Len(pdf_doc) - 1) :
        \E k \in 1..Len(signature_keywords) : KeywordHits(p, k) # << >> }

MaxOf(S) == CHOOSE x \in S : \A y \in S : y <= x

\* the box below a match, and the fixed box of a page of height h
BoxBelow(r) == Rect(r.x0, r.y1 + 10, r.x0 + 150, r.y1 + 60)

FixedBox(h) == Rect(50, h - 150, 200, h - 100)

\* the target the claim describes, from the search results taken page by page
\* and keyword by keyword
ClaimedTarget ==
    IF KeywordPagesOf # {}
    THEN LET p == MaxOf(KeywordPagesOf)
             k == MaxOf({ j \in 1..Len(signature_keywords) : KeywordHits(p, j) # << >> })
             hits == KeywordHits(p, k)
         IN  [page |-> p, rect |-> BoxBelow(hits[Len(hits)])]
    ELSE [page |-> Len(pdf_doc) - 1,
          rect |-> FixedBox(pdf_doc[Len(pdf_doc)].height)]

\* C7: when fallback_placement has chosen, the target is: when some keyword
\* matches on some page, the box below the last match of the last matching
\* keyword (in list order) of the last matching page, on that page; when no
\* keyword matches anywhere, the fixed box on the last page.  The image, when
\* its insertion does not raise, is inserted in that box on that page.
C7_SignatureRect ==
    /\ [](pc = "image" => sig_target = ClaimedTarget)
    /\ [][pc = "image" =>
            \/ image_inserts' = image_inserts
            \/ image_inserts' = Append(image_inserts,
                                       [page |-> ClaimedTarget.page,
                                        rect |-> ClaimedTarget.rect,
                                        via  |-> "fallback"])]_vars

\* keywords match on both pages; the later page is chosen, and on it the match
\* of the keyword latest in the list although another match lies lower
C7_Witness ==
    /\ pc = "SAVED"
    /\ Len(pdf_doc) = 2
    /\ sig_target.page = 1
    /\ FallbackImages # {}
    /\ pdf_doc[1] # pdf_doc[2]
    /\ KeywordPagesOf = {0, 1}
    /\ \E k \in 1..Len(signature_keywords) :
         \E h \in 1..Len(KeywordHits(1, k)) :
            KeywordHits(1, k)[h].y1 + 10 > sig_target.rect.y0

\* --------------------------------------------------------------------------
\* Further properties of fill_definition_fields (checked under SpecDef)
\* --------------------------------------------------------------------------

HasCompanyKey ==
    \E i \in 1..Len(entity_data) :
        Lower(entity_data[i].key) \in {"company", "name", "entity"}

\* C11: when no entity key equals company, name or entity (ignoring case),
\* fill_definition_fields inserts no text on any page, records no filled area
\* and no replaced term, takes no step of the page loop and returns False.
C11_NoCompanyNoOp ==
    ~HasCompanyKey
        => /\ inserts = << >>
           /\ filled_areas = << >>
           /\ replaced_patterns = {}
           /\ dpc \in {"begin", "done"}
           /\ def_result.returned => ~def_result.value

\* a record with a value but no company key, a document with the term in scope
C11_Witness ==
    /\ ~HasCompanyKey
    /\ entity_data # << >>
    /\ ScopedPagesWith("Recipient") # {}
    /\ def_result = [returned |-> TRUE, value |-> FALSE]

\* 0-based indices of the pages that hold the term
PagesWithTerm ==
    { p \in 0..(Len(pdf_doc) - 1) : search_for(pdf_doc[p + 1], "Recipient", NoClip) # << >> }

\* C12: only the first min(5, pageCount) pages are searched and modified: no
\* occurrence is taken and no insertion is made on a page of index 5 or
\* higher, and when every occurrence of the term lies on such pages nothing is
\* inserted and the function returns False.
C12_PageScope ==
    /\ \A i \in 1..Len(inserts) : inserts[i].page < 5 /\ inserts[i].page < Len(pdf_doc)
    /\ occ_page < 5
    /\ dpc \in {"term", "underscore", "means", "colon", "bracket", "line", "paren",
                "direct"} => page_num < 5
    /\ (\/ inserts # << >>
        \/ replaced_patterns # {}
        \/ (def_result.returned /\ def_result.value))
          => \E p \in PagesWithTerm : p < 5

\* a company value exists and the term occurs, but only on page index 5
C12_Witness ==
    /\ Truthy(find_company_name(entity_data))
    /\ PagesWithTerm = {5}
    /\ def_result = [returned |-> TRUE, value |-> FALSE]
    /\ inserts = << >>

\* --------------------------------------------------------------------------
\* Further properties of process_pdf (checked under Spec)
\* --------------------------------------------------------------------------

WidgetAt(p, i) == pdf_doc[p + 1].widgets[i]

WidgetPositions ==
    { pi \in (0..(Len(pdf_doc) - 1)) \X (1..2) : pi[2] <= Len(pdf_doc[pi[1] + 1].widgets) }

\* text widgets for which the matcher yields a value, and signature widgets
TextTargets ==
    { pi \in WidgetPositions :
        /\ WidgetAt(pi[1], pi[2]).type = "text"
        /\ Truthy(find_matching_entity_value(entity_data, WidgetAt(pi[1], pi[2]).name)) }

SignatureTargets ==
    { pi \in WidgetPositions : WidgetAt(pi[1], pi[2]).type = "signature" }

Attempt(stage, pi) == [stage |-> stage, page |-> pi[1], idx |-> pi[2]]

WidgetCalls == {"field_value", "create_signature_pdf", "insert_image"}

\* both widget passes are over
PastWidgets == src_doc # "none" /\ pc \notin {"start", "form", "sig"}

FieldImageAt(p, i) ==
    \E k \in 1..Len(image_inserts) :
        image_inserts[k] = [page |-> p, rect |-> WidgetAt(p, i).rect, via |-> "field"]

\* C13: a failure at one text widget or one signature widget is contained: the
\* failed widget is not counted as a fill, every widget of every page is still
\* attempted, and the run goes on to the decision, flatten and save (it is not
\* FAILED unless something other than a widget raised).
C13_WidgetFailureContained ==
    /\ [](PastWidgets =>
            attempts = { Attempt("form", pi) : pi \in TextTargets }
                       \cup { Attempt("sig", pi) : pi \in SignatureTargets })
    /\ [](\A r \in raised :
            /\ r.call = "field_value"
                 => ~\E f \in field_values : f.page = r.page /\ f.idx = r.idx
            /\ (r.call \in {"create_signature_pdf", "insert_image"} /\ r.idx >= 1)
                 => ~FieldImageAt(r.page, r.idx))
    /\ [](form_fields_filled <=> field_values # {})
    /\ [](signature_fields_filled
            <=> \E k \in 1..Len(image_inserts) : image_inserts[k].via = "field")
    /\ []((pc = "FAILED") => \E r \in raised : r.call \notin WidgetCalls)
    /\ [][(pc \in {"form", "sig"}) => (pc' \in {"form", "sig", "decide"})]_vars

\* the first text widget failed, the second was filled, a signature widget on
\* the next page failed, and the run was saved
C13_Witness ==
    /\ pc = "SAVED"
    /\ result = "True"
    /\ [page |-> 0, call |-> "field_value", idx |-> 1] \in raised
    /\ \E f \in field_values : f.page = 0 /\ f.idx = 2
    /\ \E r \in raised : r.call = "insert_image" /\ r.page = 1 /\ r.idx = 1
    /\ ~signature_fields_filled

WidgetInsertRaised ==
    \E r \in raised : r.call = "insert_image" /\ r.idx >= 1

\* C14: temp_signature.pdf is removed within the handling of a signature
\* widget whose image insertion succeeded: while no insertion into a signature
\* widget has raised, the artifact does not exist between widgets nor after
\* place_signature has returned, however many signature widgets were handled;
\* and a step that inserts the image into a widget leaves no artifact.
C14_TempArtifactRemoved ==
    /\ [](~WidgetInsertRaised => ~temp_exists)
    /\ [][(Len(image_inserts') > Len(image_inserts) /\ pc = "sig") => ~temp_exists']_vars

\* two signature widgets, both given the image, place_signature has returned
C14_Witness ==
    /\ PastWidgets
    /\ Cardinality(SignatureTargets) = 2
    /\ \A pi \in SignatureTargets : FieldImageAt(pi[1], pi[2])
    /\ ~WidgetInsertRaised
    /\ ~temp_exists

FallbackOrder == << "definition_fill", "keyword_scan", "image_insert", "entity_text" >>

FallbackImageRaised ==
    \E r \in raised : r.call = "insert_image" /\ r.idx = 0

\* C15: fallback_placement runs the definition fill, then the keyword scan
\* and the signature image insertion, then the entity text annotation: the
\* definition fill inserts only before the scan, the image is inserted before
\* any entity line, every entity line is on the page of the chosen rectangle,
\* at its left edge and 20 units per line below its bottom edge, and the
\* annotation is begun whether or not the image insertion raised.
C15_FallbackOrder ==
    /\ [](Len(ops) <= 4 /\ ops = SubSeq(FallbackOrder, 1, Len(ops)))
    /\ [](\A i \in 1..Len(text_lines) :
            /\ text_lines[i].page = sig_target.page
            /\ text_lines[i].x = sig_target.rect.x0
            /\ text_lines[i].y = sig_target.rect.y1 + 20 * i)
    /\ []((pc \in {"entity_text", "flatten", "rasterize", "write", "save", "SAVED",
                    "FAILED"} /\ ops # << >>)
            => ops = FallbackOrder)
    /\ [][(inserts' # inserts) => (ops = << "definition_fill" >>)]_vars
    /\ [][(FallbackImages' # FallbackImages)
            => (ops' = SubSeq(FallbackOrder, 1, 3) /\ text_lines' = << >>)]_vars
    /\ [][(text_lines' # text_lines) => (ops = FallbackOrder)]_vars

\* the definition fill inserted, the image insertion raised, and both entity
\* lines were still written
C15_Witness ==
    /\ pc = "SAVED"
    /\ inserts # << >>
    /\ FallbackImageRaised
    /\ FallbackImages = {}
    /\ Len(text_lines) = 2
    /\ ops = FallbackOrder

\* --------------------------------------------------------------------------
\* Bookkeeping of fill_definition_fields (checked under SpecDef)
\* --------------------------------------------------------------------------

\* C16: every successful definition fill records a filled region: when
\* fill_definition_fields has returned, filled_areas holds as many rectangles
\* as insertions were made, whichever strategy made them.
C16_EveryFillRecorded ==
    def_result.returned => Len(filled_areas) = Len(inserts)

\* --------------------------------------------------------------------------
\* Entity text annotation (checked under Spec)
\* --------------------------------------------------------------------------

EntityLineText(i) == entity_data[i].key \o ": " \o entity_data[i].value

EntityLineRaised(i) ==
    \E r \in raised : r.call = "insert_text" /\ r.idx = i

\* add_entity_text has been called and has returned
EntityTextOver ==
    /\ ops = FallbackOrder
    /\ pc \in {"flatten", "rasterize", "write", "save", "SAVED", "FAILED"}

\* C17: when the insertion of one entity line fails, only that line is lost:
\* after add_entity_text every entity pair whose own insertion did not raise
\* has its line on the page, and the run has gone on to flatten.
C17_OnlyFailedLineLost ==
    EntityTextOver
        => \A i \in 1..Len(entity_data) :
              ~EntityLineRaised(i)
                 => \E k \in 1..Len(text_lines) : text_lines[k].text = EntityLineText(i)

\* --------------------------------------------------------------------------
\* Outcome of fill_definition_fields (checked under SpecDef)
\* --------------------------------------------------------------------------

\* C18: with a company value, an occurrence of the term on a scoped page and
\* no insertion raising, the finished run has made exactly one insertion, for
\* the first occurrence of the first scoped page that holds one; the direct
\* placement step always inserts unless its insert_text raises; and the value
\* returned is True exactly when "Recipient" is in replaced_patterns.
C18_ExactlyOneFill ==
    /\ []((/\ def_result.returned
            /\ Truthy(find_company_name(entity_data))
            /\ ScopedPagesWith("Recipient") # {}
            /\ def_errors = {})
           => /\ Len(inserts) = 1
              /\ inserts[1].term = "Recipient"
              /\ inserts[1].page = MinOf(ScopedPagesWith("Recipient")) - 1
              /\ inserts[1].inst
                   = search_for(pdf_doc[inserts[1].page + 1], "Recipient", NoClip)[1])
    /\ [](def_result.returned
            => (def_result.value <=> ("Recipient" \in replaced_patterns)))
    /\ [][(dpc = "direct")
            => (Len(inserts') = Len(inserts) + 1 \/ def_errors' # def_errors)]_vars

\* nothing to fill in around the term on the third page: strategies (a)-(f)
\* found nothing and the direct placement made the one insertion
C18_Witness ==
    /\ def_result = [returned |-> TRUE, value |-> TRUE]
    /\ def_errors = {}
    /\ Len(inserts) = 1
    /\ inserts[1].strategy = "direct"
    /\ inserts[1].page = 2
    /\ Cardinality(ScopedPagesWith("Recipient")) = 2
    /\ tried = StrategyOrder

\* --------------------------------------------------------------------------
\* Document handles (checked under Spec)
\* --------------------------------------------------------------------------

Released(handle) == handle \in {"none", "closed"}

\* C19: when process_pdf has returned True or False, every document handle
\* opened during the run has been closed: the source document, the
\* intermediate flattened document of flatten_pdf and the document reopened
\* from its bytes.
C19_HandlesReleased ==
    result \in {"True", "False"}
        => Released(src_doc) /\ Released(flat_doc) /\ Released(new_doc)

=============================================================================
